---- MODULE Spec2Model ----
(***************************************************************************)
(* State-machine model of the OAuth 2.0 authorization-code + PKCE server   *)
(* of dgmulei/oauth-mcp-server (src/src/oauth/endpoints.ts, utils.ts,      *)
(* src/src/index.ts).                                                      *)
(*                                                                         *)
(* Strings that a request may omit are modelled with "" for "absent":      *)
(* URLSearchParams.get / FormData.get return null and a JSON object lacks  *)
(* the key; null, undefined and "" are all falsy in the code's tests.      *)
(* A grant code is a sequence of one-character strings, <<>> when absent.  *)
(* Time is Date.now() in milliseconds.                                     *)
(***************************************************************************)
EXTENDS Integers, Sequences, FiniteSets, TLC

VARIABLES
    sessions,   \* endpoints.ts:21  Map<string, AuthSession>, a function code -> session
    now,        \* Date.now(), milliseconds
    tok,        \* per token request: the await handleToken is suspended at, its locals
    out,        \* the HTTP response a handler has just produced (NoOut if none)
    nextGid,    \* history: number of grants stored so far (identity of a grant)
    issued,     \* history: grant identity -> number of access tokens returned for it
    redeemed,   \* history: codes for which some exchange has returned 200
    sse         \* transport.ts:33-39  the event stream a handleSSE call has created

vars == <<sessions, now, tok, out, nextGid, issued, redeemed, sse>>

----------------------------------------------------------------------------
(* Bounds of the model *)

MaxGrants == 2      \* authorization requests that store a grant
MaxTicks == 2       \* clock advances

Procs == {"p1", "p2"}            \* concurrently handled token requests
RandomBytes == {1, 66}           \* values crypto.getRandomValues may fill the array with
TickDeltas == {10 * 60 * 1000}   \* the clock is observed every ten minutes

----------------------------------------------------------------------------
(* utils.ts *)

chars ==
    << "A","B","C","D","E","F","G","H","I","J","K","L","M",
       "N","O","P","Q","R","S","T","U","V","W","X","Y","Z",
       "a","b","c","d","e","f","g","h","i","j","k","l","m",
       "n","o","p","q","r","s","t","u","v","w","x","y","z",
       "0","1","2","3","4","5","6","7","8","9","-",".","_","~" >>

CodeLength == 32

\* utils.ts:8-18; `array` is what crypto.getRandomValues left in the Uint8Array
generateRandomString(length, array) ==
    [i \in 1..length |-> chars[(array[i] % Len(chars)) + 1]]

generateAuthCode(array) == generateRandomString(CodeLength, array)

\* the arrays crypto.getRandomValues may produce in this model
RandomArrays == { [i \in 1..CodeLength |-> b] : b \in RandomBytes }


\* base64URLEncode(arrayBufferToString(SHA-256(verifier))): the digest is not
\* computed; it is a fixed injective table on the verifiers of the model
\* ("" is never a digest).
S256Digest(codeVerifier) ==
    CASE codeVerifier = "v1" -> "b64url-sha256-of-v1"
      [] codeVerifier = "v2" -> "b64url-sha256-of-v2"
      [] OTHER -> "b64url-sha256-of-other"

\* utils.ts:92-107; "throw" (line 98), else "true" / "false"
verifyCodeChallenge(codeVerifier, codeChallenge, method) ==
    IF method # "S256" THEN "throw"
    ELSE IF S256Digest(codeVerifier) = codeChallenge THEN "true" ELSE "false"

----------------------------------------------------------------------------
(* HTTP responses.  One record shape for every response of the worker. *)

NoToken == [access_token |-> "none"]

Response(status, kind, error, location, code, state, token) ==
    [status |-> status, kind |-> kind, error |-> error, location |-> location,
     code |-> code, state |-> state, token |-> token]

\* new Response(JSON.stringify({ error }), { status, ... })
JsonError(status, error) == Response(status, "json", error, "", <<>>, "", NoToken)

\* Response.redirect(url.toString(), 302); error/code/state are the query
\* parameters set on the URL ("" / <<>>: not set)
Redirect(location, error, code, state) ==
    Response(302, "redirect", error, location, code, state, NoToken)

\* an exception leaving the handler (a rejected promise)
Thrown == Response(0, "throw", "", "", <<>>, "", NoToken)

\* index.ts:70-76
InternalServerError == Response(500, "text", "", "", <<>>, "", NoToken)

\* index.ts:20-76: the router awaits the handler inside try/catch
fetch(result) == IF result = Thrown THEN InternalServerError ELSE result

\* `new URL(u)` succeeds only for an absolute URL
IsValidURL(u) == u \in {"https://cb", "https://other"}

----------------------------------------------------------------------------
(* endpoints.ts: handleAuthorize *)

\* query strings of the model: the requests that pass validation, and every
\* request that differs from a passing one in the validated fields
AuthorizeParams ==
    [response_type : {"code", "token"}, client_id : {"c1"},
     redirect_uri : {"https://cb", "notaurl"},
     scope : {"read"}, state : {"", "xyz"},
     code_challenge : {S256Digest("v1")},
     code_challenge_method : {"", "S256"}]
    \cup
    [response_type : {"code", "token"}, client_id : {"", "c1"},
     redirect_uri : {"", "https://cb"},
     scope : {""}, state : {"", "xyz"},
     code_challenge : {"", S256Digest("v1")},
     code_challenge_method : {"", "S256", "plain"}]

\* the authorization requests made while token requests are in flight
CoreAuthorizeParams ==
    { [response_type |-> "code", client_id |-> "c1", redirect_uri |-> "https://cb",
       scope |-> "", state |-> "", code_challenge |-> S256Digest("v1"),
       code_challenge_method |-> "S256"],
      [response_type |-> "code", client_id |-> "c1", redirect_uri |-> "https://cb",
       scope |-> "", state |-> "", code_challenge |-> "",
       code_challenge_method |-> "S256"] }

\* endpoints.ts:46-54
parseAuthorizeRequest(params) ==
    [response_type |-> params.response_type,
     client_id |-> params.client_id,
     redirect_uri |-> params.redirect_uri,
     scope |-> IF params.scope = "" THEN "mcp" ELSE params.scope,
     state |-> params.state,
     code_challenge |-> params.code_challenge,
     code_challenge_method |->
        IF params.code_challenge_method = "" THEN "S256"
        ELSE params.code_challenge_method]

\* endpoints.ts:225-232
redirectWithError(redirectUri, error, state) ==
    IF IsValidURL(redirectUri) THEN Redirect(redirectUri, error, <<>>, state)
    ELSE Thrown

\* endpoints.ts:56-67: "" when the request passes, else the error code
authorizeError(authRequest) ==
    IF authRequest.response_type # "code" THEN "unsupported_response_type"
    ELSE IF authRequest.client_id = "" \/ authRequest.redirect_uri = ""
            \/ authRequest.code_challenge = "" THEN "invalid_request"
    ELSE IF authRequest.code_challenge_method # "S256" THEN "invalid_request"
    ELSE ""

\* endpoints.ts:73-82 (gid is history, not a field of AuthSession)
newSession(authRequest, code, t, gid) ==
    [code |-> code,
     codeChallenge |-> authRequest.code_challenge,
     codeChallengeMethod |-> authRequest.code_challenge_method,
     redirectUri |-> authRequest.redirect_uri,
     clientId |-> authRequest.client_id,
     scope |-> authRequest.scope,
     state |-> authRequest.state,
     expiresAt |-> t + 10 * 60 * 1000,
     gid |-> gid]

\* Map.prototype.set / delete
MapSet(m, k, v) == [c \in DOMAIN m \cup {k} |-> IF c = k THEN v ELSE m[c]]

\* a delete that empties the map
MapClear(m, k) == << >>

MapDelete(m, k) == [c \in DOMAIN m \ {k} |-> m[c]]

\* endpoints.ts:87-93
authorizeRedirect(authRequest, code) ==
    IF IsValidURL(authRequest.redirect_uri)
    THEN Redirect(authRequest.redirect_uri, "", code, authRequest.state)
    ELSE Thrown

AuthOut(params, resp) == [op |-> "authorize", req |-> params, resp |-> resp]

NoOut == [op |-> "none"]

\* endpoints.ts:41-94, behind index.ts:27-29
handleAuthorize(params, array) ==
    LET authRequest == parseAuthorizeRequest(params)
        error == authorizeError(authRequest)
        code == generateAuthCode(array)
    IN /\ out = NoOut
       /\ IF error # ""
          THEN /\ out' = AuthOut(params,
                            fetch(redirectWithError(authRequest.redirect_uri, error,
                                                    authRequest.state)))
               /\ UNCHANGED <<sessions, now, tok, nextGid, issued, redeemed, sse>>
          ELSE /\ nextGid < MaxGrants
               /\ sessions' = MapSet(sessions, code,
                                     newSession(authRequest, code, now, nextGid + 1))
               /\ nextGid' = nextGid + 1
               /\ issued' = [g \in DOMAIN issued \cup {nextGid + 1} |->
                               IF g = nextGid + 1 THEN 0 ELSE issued[g]]
               /\ out' = AuthOut(params, fetch(authorizeRedirect(authRequest, code)))
               /\ UNCHANGED <<now, tok, redeemed, sse>>

----------------------------------------------------------------------------
(* endpoints.ts: handleToken *)

JWT_SECRET == "secret"
Origin == "https://srv"          \* new URL(request.url).origin

TokenCodes == { generateAuthCode(a) : a \in RandomArrays }

base_token ==
    [method |-> "POST", contentType |-> "form", body |-> "object",
     grant_type |-> "authorization_code",
     code |-> generateAuthCode([i \in 1..CodeLength |-> 0]),
     redirect_uri |-> "https://cb", client_id |-> "c1", code_verifier |-> "v1"]

\* token requests of the model: for each code the well-formed request and the
\* one with another redirect_uri, client_id or code_verifier, and the
\* well-formed request with one thing wrong.
\* body: what the request body holds when read as JSON: an "object" with the
\* five fields, the literal "null", a "scalar" (number, string, boolean,
\* array) or "malformed" text.
TokenRequests ==
    { [r EXCEPT !.code = c] :
        c \in TokenCodes,
        r \in { base_token,
                [base_token EXCEPT !.redirect_uri = "https://other"],
                [base_token EXCEPT !.client_id = "c2"],
                [base_token EXCEPT !.code_verifier = "v2"] } }
    \cup
    { [base_token EXCEPT !.method = "GET"],
      [base_token EXCEPT !.contentType = "json"],
      [base_token EXCEPT !.contentType = "json", !.body = "malformed"],
      [base_token EXCEPT !.contentType = "json", !.body = "null"],
      [base_token EXCEPT !.contentType = "json", !.body = "scalar"],
      [base_token EXCEPT !.grant_type = ""],
      [base_token EXCEPT !.grant_type = "refresh_token"],
      [base_token EXCEPT !.code = <<>>],
      [base_token EXCEPT !.redirect_uri = ""],
      [base_token EXCEPT !.client_id = ""],
      [base_token EXCEPT !.code_verifier = ""] }

NoFields ==
    [grant_type |-> "", code |-> <<>>, redirect_uri |-> "", client_id |-> "",
     code_verifier |-> ""]

\* endpoints.ts:109-129: what tokenRequest is after the try block: "throw"
\* (request.json() rejected, caught at line 124), "null" (request.json()
\* resolved to null) or a "value" whose five properties are `fields`
parseTokenRequest(req) ==
    IF req.contentType = "form" \/ req.body = "object"
    THEN [kind |-> "value",
          fields |-> [grant_type |-> req.grant_type, code |-> req.code,
                      redirect_uri |-> req.redirect_uri, client_id |-> req.client_id,
                      code_verifier |-> req.code_verifier]]
    ELSE IF req.body = "malformed" THEN [kind |-> "throw", fields |-> NoFields]
    ELSE IF req.body = "null" THEN [kind |-> "null", fields |-> NoFields]
    ELSE [kind |-> "value", fields |-> NoFields]

\* endpoints.ts:131-144: "" when the request passes, else the error code
tokenRequestError(tokenRequest) ==
    IF tokenRequest.grant_type # "authorization_code" THEN "unsupported_grant_type"
    ELSE IF tokenRequest.code = <<>> \/ tokenRequest.redirect_uri = ""
            \/ tokenRequest.client_id = "" \/ tokenRequest.code_verifier = ""
         THEN "invalid_request"
    ELSE ""

\* isExpired with the expiry instant read ten minutes late
isExpiredLate(session, t) == t > session.expiresAt + 10 * 60 * 1000

\* isExpired that never finds a grant expired
isExpiredNever(session, t) == FALSE

\* endpoints.ts:156
isExpired(session, t) == t > session.expiresAt

\* sessionMismatch without the client_id comparison
sessionMismatchRedirectOnly(session, tokenRequest) ==
    session.redirectUri # tokenRequest.redirect_uri

\* endpoints.ts:165
sessionMismatch(session, tokenRequest) ==
    \/ session.redirectUri # tokenRequest.redirect_uri
    \/ session.clientId # tokenRequest.client_id

\* jwtPayload with a lifetime of one minute
jwtPayloadShortLived(session, t) ==
    [sub |-> session.clientId, iss |-> Origin, aud |-> "mcp-server",
     exp |-> (t \div 1000) + 60, iat |-> t \div 1000, scope |-> session.scope]

\* endpoints.ts:194-202
jwtPayload(session, t) ==
    [sub |-> session.clientId, iss |-> Origin, aud |-> "mcp-server",
     exp |-> (t \div 1000) + 3600, iat |-> t \div 1000, scope |-> session.scope]

\* utils.ts:23-47: header.payload.signature; the HMAC is the pair of key and data
createJWT(payload, secret) ==
    [header |-> [alg |-> "HS256", typ |-> "JWT"], payload |-> payload,
     signature |-> <<secret, payload>>]

\* endpoints.ts:209-219
tokenResponse(accessToken, session) ==
    Response(200, "json", "", "", <<>>, "",
             [access_token |-> accessToken, token_type |-> "Bearer",
              expires_in |-> 3600, scope |-> session.scope])

Idle == [pc |-> "idle"]

NoSession == [gid |-> 0]

\* the response of a token request, with two facts about the request that
\* produced it: where the handler resumed to return it ("idle": in its first
\* step) and the session sessions.get returned for its code (NoSession if it
\* never got there or found none)
TokenOut(p, req, found, resp) ==
    [op |-> "token", stage |-> tok[p].pc, found |-> found,
     resp |-> resp]

\* the handler returns: its response goes out and its locals are gone
Return(p, req, found, resp) ==
    /\ out' = TokenOut(p, req, found, fetch(resp))
    /\ tok' = [tok EXCEPT ![p] = Idle]

\* endpoints.ts:100-178, behind index.ts:32-34: the handler up to its first
\* suspension that follows a read of shared state.  Reading the body (lines
\* 113, 122) suspends too, but nothing except the request has been read by
\* then, so the step starts when the body is available.  Validation,
\* sessions.get, the expiry check and the redirect/client check run without
\* suspending; verifyCodeChallenge then suspends in crypto.subtle.digest.
StartToken(p, req) ==
    /\ out = NoOut
    /\ tok[p].pc = "idle"
    /\ LET parsed == parseTokenRequest(req)
           tokenRequest == parsed.fields
           error == tokenRequestError(tokenRequest)
           code == tokenRequest.code
       IN IF req.method # "POST"
          THEN /\ Return(p, req, NoSession, JsonError(405, "invalid_request"))
               /\ UNCHANGED sessions
          ELSE IF parsed.kind = "throw"
          THEN /\ Return(p, req, NoSession, JsonError(400, "invalid_request"))
               /\ UNCHANGED sessions
          ELSE IF parsed.kind = "null"
          THEN \* line 132 reads a property of null: TypeError, outside any try
               /\ Return(p, req, NoSession, Thrown)
               /\ UNCHANGED sessions
          ELSE IF error # ""
          THEN /\ Return(p, req, NoSession, JsonError(400, error))
               /\ UNCHANGED sessions
          ELSE IF code \notin DOMAIN sessions
          THEN /\ Return(p, req, NoSession, JsonError(400, "invalid_grant"))
               /\ UNCHANGED sessions
          ELSE IF isExpired(sessions[code], now)
          THEN /\ sessions' = MapDelete(sessions, code)
               /\ Return(p, req, sessions[code], JsonError(400, "invalid_grant"))
          ELSE IF sessionMismatch(sessions[code], tokenRequest)
          THEN /\ Return(p, req, sessions[code], JsonError(400, "invalid_grant"))
               /\ UNCHANGED sessions
          ELSE /\ tok' = [tok EXCEPT ![p] =
                            [pc |-> "digest", req |-> req, session |-> sessions[code]]]
               /\ out' = NoOut
               /\ UNCHANGED sessions
    /\ UNCHANGED <<now, nextGid, issued, redeemed, sse>>

\* DigestDone that looks at the grant's expiry instant again when it resumes
DigestDoneRechecked(p) ==
    /\ out = NoOut
    /\ tok[p].pc = "digest"
    /\ LET session == tok[p].session
           isValid == verifyCodeChallenge(tok[p].req.code_verifier,
                                          session.codeChallenge,
                                          session.codeChallengeMethod)
       IN IF isExpired(session, now) \/ isValid = "false"
          THEN Return(p, tok[p].req, session, JsonError(400, "invalid_grant"))
          ELSE IF isValid = "throw"
          THEN Return(p, tok[p].req, session, JsonError(400, "invalid_request"))
          ELSE /\ tok' = [tok EXCEPT ![p] =
                            [pc |-> "sign", req |-> tok[p].req, session |-> session,
                             payload |-> jwtPayload(session, now)]]
               /\ out' = NoOut
    /\ UNCHANGED <<sessions, now, nextGid, issued, redeemed, sse>>

\* endpoints.ts:173-204: verifyCodeChallenge resumes; on success the payload is
\* built from Date.now() and createJWT suspends in crypto.subtle
DigestDone(p) ==
    /\ out = NoOut
    /\ tok[p].pc = "digest"
    /\ LET session == tok[p].session
           isValid == verifyCodeChallenge(tok[p].req.code_verifier,
                                          session.codeChallenge,
                                          session.codeChallengeMethod)
       IN IF isValid = "throw"
          THEN Return(p, tok[p].req, session, JsonError(400, "invalid_request"))
          ELSE IF isValid = "false"
          THEN Return(p, tok[p].req, session, JsonError(400, "invalid_grant"))
          ELSE /\ tok' = [tok EXCEPT ![p] =
                            [pc |-> "sign", req |-> tok[p].req, session |-> session,
                             payload |-> jwtPayload(session, now)]]
               /\ out' = NoOut
    /\ UNCHANGED <<sessions, now, nextGid, issued, redeemed, sse>>

\* endpoints.ts:204-219: createJWT resumes, the session is deleted, 200
SignDone(p) ==
    /\ out = NoOut
    /\ tok[p].pc = "sign"
    /\ LET session == tok[p].session
           code == tok[p].req.code
           accessToken == createJWT(tok[p].payload, JWT_SECRET)
       IN /\ sessions' = MapDelete(sessions, code)
          /\ Return(p, tok[p].req, session, tokenResponse(accessToken, session))
          /\ issued' = [issued EXCEPT ![session.gid] = @ + 1]
          /\ redeemed' = redeemed \cup {code}
    /\ UNCHANGED <<now, nextGid, sse>>

----------------------------------------------------------------------------
(* the clock *)

Tick(d) ==
    /\ out = NoOut
    /\ (now % (10 * 60 * 1000)) + (now \div (10 * 60 * 1000)) < MaxTicks
    /\ now' = now + d
    /\ out' = NoOut
    /\ UNCHANGED <<sessions, tok, nextGid, issued, redeemed, sse>>

\* index.ts:9-77: fetch hands the handler's response to the runtime; `out`
\* holds a response only between the step that produced it and this one
Respond ==
    /\ out # NoOut
    /\ out' = NoOut
    /\ UNCHANGED <<sessions, now, tok, nextGid, issued, redeemed, sse>>

----------------------------------------------------------------------------

\* no event stream has been created
NoStream == [pc |-> "idle"]

Init ==
    /\ sessions = << >>
    /\ now = 0
    /\ tok = [p \in Procs |-> Idle]
    /\ out = NoOut
    /\ nextGid = 0
    /\ issued = << >>
    /\ redeemed = {}
    /\ sse = NoStream

Authorize == \E params \in CoreAuthorizeParams, array \in RandomArrays :
                handleAuthorize(params, array)
Start == \E p \in Procs, req \in TokenRequests : StartToken(p, req)
Digest == \E p \in Procs : DigestDone(p)
Sign == \E p \in Procs : SignDone(p)
Clock == \E d \in TickDeltas : Tick(d)

Next == Authorize \/ Start \/ Digest \/ Sign \/ Clock \/ Respond

\* the worker: authorization requests, concurrent token requests, the clock
Spec == Init /\ [][Next]_vars

AuthorizeAny == \E params \in AuthorizeParams, array \in RandomArrays :
                   handleAuthorize(params, array)

NextAuthorize == AuthorizeAny \/ Clock \/ Respond

\* the authorization endpoint alone, over every query string of the model
SpecAuthorize == Init /\ [][NextAuthorize]_vars

\* authorization requests that pass validation, over two scopes and two clients
ScopedAuthorizeParams ==
    [response_type : {"code"}, client_id : {"c1", "c2"},
     redirect_uri : {"https://cb"}, scope : {"", "read"}, state : {""},
     code_challenge : {S256Digest("v1")}, code_challenge_method : {"S256"}]

AuthorizeScoped == \E params \in ScopedAuthorizeParams :
                      handleAuthorize(params, [i \in 1..CodeLength |-> 1])

NextToken == AuthorizeScoped \/ Start \/ Digest \/ Sign \/ Clock \/ Respond

\* the token endpoint over grants of several scopes and clients, one code
SpecToken == Init /\ [][NextToken]_vars

----------------------------------------------------------------------------
(* utils.ts: verifyJWT *)

\* a value that is not there: an absent key, undefined
Absent == [present |-> FALSE]

Present(v) == [present |-> TRUE, value |-> v]

\* what stands in a header for a token that does not split into three parts
NoJWT == [garbage |-> TRUE]

\* the claims of the token the server mints at instant 0 for client c1
BearerPayload ==
    jwtPayload(newSession(parseAuthorizeRequest(
                              [response_type |-> "code", client_id |-> "c1",
                               redirect_uri |-> "https://cb", scope |-> "",
                               state |-> "", code_challenge |-> S256Digest("v1"),
                               code_challenge_method |-> "S256"]),
                          generateAuthCode([i \in 1..CodeLength |-> 1]), 0, 1), 0)

\* three-part bearer tokens of the model: the minted one; two signed with the
\* server's secret for another audience and by another issuer; one signed
\* with another secret; the minted one with its exp claim rewritten
BearerTokens ==
    { createJWT(BearerPayload, JWT_SECRET),
      createJWT([BearerPayload EXCEPT !.aud = "other-service"], JWT_SECRET),
      createJWT([BearerPayload EXCEPT !.iss = "https://other-host"], JWT_SECRET),
      createJWT(BearerPayload, "other-secret"),
      [createJWT(BearerPayload, JWT_SECRET) EXCEPT !.payload.exp = 2 * 3600] }

\* Authorization headers of the model: scheme "" is no header at all; after
\* "Bearer " comes a string of `parts` dot-separated parts, the JWT `jwt`
\* when they are three
AuthorizationHeaders ==
    { [scheme |-> "", parts |-> 0, jwt |-> NoJWT],
      [scheme |-> "Basic", parts |-> 1, jwt |-> NoJWT],
      [scheme |-> "Bearer", parts |-> 1, jwt |-> NoJWT] }
    \cup [scheme : {"Bearer"}, parts : {3}, jwt : BearerTokens]

JWTThrow(message) == [kind |-> "throw", message |-> message]

\* verifyJWT without the signature check
verifyJWTUnsigned(token, secret, t) ==
    IF token.parts # 3 THEN JWTThrow("Invalid JWT format")
    ELSE IF token.jwt.payload.exp # 0 /\ t > token.jwt.payload.exp * 1000
    THEN JWTThrow("JWT token expired")
    ELSE [kind |-> "value", payload |-> token.jwt.payload]

\* utils.ts:52-87; t is Date.now() at line 82
verifyJWT(token, secret, t) ==
    IF token.parts # 3 THEN JWTThrow("Invalid JWT format")
    ELSE IF token.jwt.signature # <<secret, token.jwt.payload>>
    THEN JWTThrow("Invalid JWT signature")
    ELSE IF token.jwt.payload.exp # 0 /\ t > token.jwt.payload.exp * 1000
    THEN JWTThrow("JWT token expired")
    ELSE [kind |-> "value", payload |-> token.jwt.payload]

----------------------------------------------------------------------------
(* protocol.ts *)

SERVER_INFO == [name |-> "oauth-mcp-server", version |-> "1.0.0"]

SERVER_CAPABILITIES == [tools |-> [listChanged |-> FALSE]]

\* the registry with the status tool the documentation lists
AVAILABLE_TOOLS_WithStatus ==
    << [name |-> "echo", required |-> <<"text">>],
       [name |-> "ping", required |-> << >>],
       [name |-> "timestamp", required |-> << >>],
       [name |-> "status", required |-> << >>] >>

\* the registry: name and mandatory argument names of each tool
AVAILABLE_TOOLS ==
    << [name |-> "echo", required |-> <<"text">>],
       [name |-> "ping", required |-> << >>],
       [name |-> "timestamp", required |-> << >>] >>

\* a string as its characters
SupportedPrefix == <<"2", "0", "2", "4", "-">>

\* String.prototype.startsWith
startsWith(str, prefix) ==
    Len(str) >= Len(prefix) /\ SubSeq(str, 1, Len(prefix)) = prefix

\* createErrorResponse that fills in a result as well
createErrorResponseWithResult(id, code, message) ==
    [jsonrpc |-> "2.0", id |-> id, result |-> Present([empty |-> TRUE]),
     error |-> Present([code |-> code, message |-> message])]

\* protocol.ts:227-236
createErrorResponse(id, code, message) ==
    [jsonrpc |-> "2.0", id |-> id, result |-> Absent,
     error |-> Present([code |-> code, message |-> message])]

\* { jsonrpc: "2.0", id, result }
ResultResponse(id, result) ==
    [jsonrpc |-> "2.0", id |-> id, result |-> Present(result), error |-> Absent]

\* an exception on its way to the nearest catch
ThrownMessage == [thrown |-> TRUE]

\* a JSON value that cannot be converted to a string: the object
\* {"toString": null}, whose own toString is not callable and whose valueOf
\* returns the object.  A template literal that interpolates it throws a
\* TypeError (protocol.ts:83, 140, 193).
Unprintable == "{toString:null}"

\* protocol.ts:94-113.  params is Absent when the message has no params
\* (reading a property of undefined throws); protocolVersion has type
\* "undefined" (key absent), "string" (chars) or "number" (a non-zero
\* number has no startsWith: calling it throws)
handleInitialize(message) ==
    LET params == message.params
    IN IF ~params.present THEN ThrownMessage
       ELSE LET pv == params.value.protocolVersion
            IN IF pv.type = "undefined" \/ (pv.type = "string" /\ pv.chars = << >>)
               THEN createErrorResponse(message.id, -32602,
                                        <<"Unsupported protocol version">>)
               ELSE IF pv.type # "string" THEN ThrownMessage
               ELSE IF ~startsWith(pv.chars, SupportedPrefix)
               THEN createErrorResponse(message.id, -32602,
                                        <<"Unsupported protocol version">>)
               ELSE ResultResponse(message.id,
                                   [protocolVersion |-> pv.chars,
                                    capabilities |-> SERVER_CAPABILITIES,
                                    serverInfo |-> SERVER_INFO])

\* protocol.ts:118-126
handleToolsList(message) == ResultResponse(message.id, [tools |-> AVAILABLE_TOOLS])

TextContent(text) == [content |-> << [type |-> "text", text |-> text] >>]

\* protocol.ts:187-196; args?.text || '', "" when arguments or text is absent
executeEcho(args) ==
    IF args.text = Unprintable THEN ThrownMessage
    ELSE TextContent(<<"Echo: ", args.text>>)

\* protocol.ts:201-208
executePing == TextContent(<<"pong">>)

\* protocol.ts:213-222; t is the instant new Date() reads
executeTimestamp(t) == TextContent(<<"Current server time: ", t>>)

\* protocol.ts:131-171; name "" is an absent or empty name
handleToolsCall(message, t) ==
    LET params == message.params
    IN IF ~params.present THEN ThrownMessage
       ELSE LET name == params.value.name
            IN IF name = ""
               THEN createErrorResponse(message.id, -32602, <<"Missing tool name">>)
               ELSE IF ~\E i \in 1..Len(AVAILABLE_TOOLS) : AVAILABLE_TOOLS[i].name = name
               THEN IF name = Unprintable THEN ThrownMessage
                    ELSE createErrorResponse(message.id, -32602,
                                             <<"Unknown tool: ", name>>)
               ELSE IF name \notin {"echo", "ping", "timestamp"}
               THEN createErrorResponse(message.id, -32602,
                                        <<"Tool not implemented: ", name>>)
               ELSE LET result ==
                          CASE name = "echo" -> executeEcho(params.value.arguments)
                            [] name = "ping" -> executePing
                            [] name = "timestamp" -> executeTimestamp(t)
                    IN IF result = ThrownMessage
                       THEN \* lines 162-164: the fault is caught here
                            createErrorResponse(message.id, -32603,
                                <<"Tool execution failed: ", "TypeError">>)
                       ELSE ResultResponse(message.id, result)

\* protocol.ts:176-182; the result is {}
handlePing(message) == ResultResponse(message.id, [empty |-> TRUE])

\* protocol.ts:69-84: the switch
dispatch(message, t) ==
    CASE message.method = "initialize" -> handleInitialize(message)
      [] message.method = "tools/list" -> handleToolsList(message)
      [] message.method = "tools/call" -> handleToolsCall(message, t)
      [] message.method = "ping" -> handlePing(message)
      [] OTHER -> IF message.method = Unprintable THEN ThrownMessage
                  ELSE createErrorResponse(message.id, -32601,
                                           <<"Method not found: ", message.method>>)

\* handleMCPMessage without its try/catch
handleMCPMessageUncaught(message, t) == dispatch(message, t)

\* protocol.ts:67-89; method "undefined" is an absent method, which the
\* template literal of line 83 prints as undefined
handleMCPMessage(message, t) ==
    LET response == dispatch(message, t)
    IN IF response = ThrownMessage
       THEN createErrorResponse(message.id, -32603, <<"Internal error">>)
       ELSE response

\* validateMCPMessage without the test of the protocol tag
validateMCPMessageAnyTag(data) ==
    /\ data.json = "object"
    /\ \/ data.message.method \notin {"undefined", ""}
       \/ data.message.hasResult
       \/ data.message.hasError

\* protocol.ts:241-248; data is what JSON.parse returned: json tells whether
\* it is an "object" (then message holds its keys), "null" or a "scalar"
validateMCPMessage(data) ==
    /\ data.json = "object"
    /\ data.message.jsonrpc = "2.0"
    /\ \/ data.message.method \notin {"undefined", ""}
       \/ data.message.hasResult
       \/ data.message.hasError

----------------------------------------------------------------------------
(* transport.ts: handleMCPRequest *)

\* the values params.protocolVersion takes in the model
ProtocolVersions ==
    { [type |-> "undefined", chars |-> << >>],
      [type |-> "number", chars |-> << >>],
      [type |-> "string", chars |-> <<"2", "0", "2", "4">>],
      [type |-> "string", chars |-> <<"2", "0", "2", "4", "-", "1", "1", "-", "0", "5">>],
      [type |-> "string", chars |-> <<"2", "0", "2", "5", "-", "0", "3", "-", "2", "6">>] }

\* params of the model: none, or an object with any of protocolVersion,
\* name and arguments.text ("" when the key is absent)
MCPParams ==
    {Absent} \cup
    { Present([protocolVersion |-> pv, name |-> name, arguments |-> [text |-> text]]) :
        pv \in ProtocolVersions,
        name \in {"", "echo", "ping", "timestamp", "status"},
        text \in {"", "hi", Unprintable} }

\* JSON objects of the model; id "undefined" is an absent id
MCPMessages ==
    [jsonrpc : {"2.0"}, id : {"undefined", "1"},
     method : {"initialize", "tools/list", "tools/call", "ping",
               "resources/list", "undefined", Unprintable},
     params : MCPParams, hasResult : {FALSE}, hasError : {FALSE}]
    \cup
    [jsonrpc : {"2.0", "1.0", "undefined"}, id : {"undefined", "1"},
     method : {"ping", "undefined", ""},
     params : {Absent}, hasResult : BOOLEAN, hasError : BOOLEAN]

\* request bodies of the model: text that is not JSON, the JSON literal
\* null, a JSON number or string, and the JSON objects
MCPBodies ==
    [json : {"malformed", "null", "scalar"}, message : {Absent}]
    \cup [json : {"object"}, message : MCPMessages]

MCPRequests == [method : {"POST"}, authorization : AuthorizationHeaders, body : MCPBodies]

NoMessage == [jsonrpc |-> "none"]

TextResponse(status, text) ==
    [status |-> status, kind |-> "text", text |-> text, message |-> NoMessage]

JsonResponse(status, message) ==
    [status |-> status, kind |-> "json", text |-> "", message |-> message]

\* the response of a protocol request, with the request and the stage of the
\* handler that produced the response: "method" (line 58), "header" (67),
\* "verify" (76-83), "parse" (87-116) or "dispatch" (119-123)
MCPOut(req, stage, resp) == [op |-> "mcp", req |-> req, stage |-> stage, resp |-> resp]

\* transport.ts:57-123, behind index.ts:37-42.  The handler reads no shared
\* state but the clock, at line 82 of utils.ts and in executeTimestamp.
handleMCPRequest(req) ==
    /\ out = NoOut
    /\ out' =
         IF req.method # "POST"
         THEN MCPOut(req, "method", TextResponse(405, "Method not allowed"))
         ELSE IF req.authorization.scheme # "Bearer"
         THEN MCPOut(req, "header", TextResponse(401, "Unauthorized"))
         ELSE IF verifyJWT(req.authorization, JWT_SECRET, now).kind = "throw"
         THEN MCPOut(req, "verify", TextResponse(401, "Invalid token"))
         ELSE IF req.body.json = "malformed"
         THEN MCPOut(req, "parse",
                     JsonResponse(400, createErrorResponse("null", -32700, <<"Parse error">>)))
         ELSE IF ~validateMCPMessage(req.body)
         THEN MCPOut(req, "parse",
                     JsonResponse(400, createErrorResponse("null", -32600, <<"Invalid Request">>)))
         ELSE MCPOut(req, "dispatch",
                     JsonResponse(200, handleMCPMessage(req.body.message, now)))
    /\ UNCHANGED <<sessions, now, tok, nextGid, issued, redeemed, sse>>

\* the clock of the protocol channel: it is observed one millisecond and one
\* token lifetime later
ElapseDeltas == {1, 3600 * 1000}

Elapse(d) ==
    /\ out = NoOut
    /\ (now % (3600 * 1000)) + (now \div (3600 * 1000)) < MaxTicks
    /\ now' = now + d
    /\ out' = NoOut
    /\ UNCHANGED <<sessions, tok, nextGid, issued, redeemed, sse>>

MCP == \E req \in MCPRequests : handleMCPRequest(req)
ClockMCP == \E d \in ElapseDeltas : Elapse(d)

NextMCP == MCP \/ ClockMCP \/ Respond

\* the protocol channel: bearer tokens, message bodies, the clock
SpecMCP == Init /\ [][NextMCP]_vars

----------------------------------------------------------------------------
(* utils.ts: generateRandomString, one character at a time *)

\* the values of one element of a Uint8Array
Bytes == 0..255

RandomOut(byte, result) == [op |-> "random", byte |-> byte, result |-> result]

\* utils.ts:8-18 with length 1: crypto.getRandomValues fills the array with
\* `byte`
drawCharacter(byte) ==
    /\ out = NoOut
    /\ out' = RandomOut(byte, generateRandomString(1, <<byte>>))
    /\ UNCHANGED <<sessions, now, tok, nextGid, issued, redeemed, sse>>

Draw == \E byte \in Bytes : drawCharacter(byte)

NextRandom == Draw \/ Respond

\* the random-string generator over every value of a byte
SpecRandom == Init /\ [][NextRandom]_vars

----------------------------------------------------------------------------
(* utils.ts: createJWT and verifyJWT on the strings they handle.  A string  *)
(* is the sequence of its UTF-16 code units; the output of btoa is a        *)
(* sequence of one-character strings.  (createJWT and verifyJWT above work  *)
(* on the decoded token, which is what these produce for the Latin-1        *)
(* claims of the other specifications.)                                     *)

\* the printable ASCII characters, U+0020 to U+007E (two of them by name)
Ascii ==
    << " ","!","\"","#","$","%","&","'","(",")","*","+",",",
    "-",".","/","0","1","2","3","4","5","6","7","8","9",
    ":",";","<","=",">","?","@","A","B","C","D","E","F",
    "G","H","I","J","K","L","M","N","O","P","Q","R","S",
    "T","U","V","W","X","Y","Z","[","backslash","]","^","_","grave",
    "a","b","c","d","e","f","g","h","i","j","k","l","m",
    "n","o","p","q","r","s","t","u","v","w","x","y","z",
    "{","|","}","~" >>

\* the code unit of an ASCII character
CodeUnit(c) == 31 + CHOOSE i \in 1..Len(Ascii) : Ascii[i] = c

\* the string with the given ASCII characters
Text(cs) == [i \in 1..Len(cs) |-> CodeUnit(cs[i])]

RECURSIVE Decimal(_)
\* Number.prototype.toString of a non-negative integer
Decimal(n) ==
    IF n < 10 THEN <<48 + n>> ELSE Decimal(n \div 10) \o <<48 + (n % 10)>>

\* a JSON string literal (no character of the model needs an escape)
Quoted(str) == <<34>> \o str \o <<34>>

\* JSON.stringify of a JWTPayload, members in the order of endpoints.ts:195-202
JSONstringify(payload) ==
    Text(<<"{","\"","s","u","b","\"",":">>) \o Quoted(payload.sub)
    \o Text(<<",","\"","i","s","s","\"",":">>) \o Quoted(payload.iss)
    \o Text(<<",","\"","a","u","d","\"",":">>) \o Quoted(payload.aud)
    \o Text(<<",","\"","e","x","p","\"",":">>) \o Decimal(payload.exp)
    \o Text(<<",","\"","i","a","t","\"",":">>) \o Decimal(payload.iat)
    \o Text(<<",","\"","s","c","o","p","e","\"",":">>) \o Quoted(payload.scope)
    \o Text(<<"}">>)

\* the base64 alphabet of btoa / atob
b64chars ==
    << "A","B","C","D","E","F","G","H","I","J","K","L","M",
    "N","O","P","Q","R","S","T","U","V","W","X","Y","Z",
    "a","b","c","d","e","f","g","h","i","j","k","l","m",
    "n","o","p","q","r","s","t","u","v","w","x","y","z",
    "0","1","2","3","4","5","6","7","8","9","+","/" >>

B64(i) == b64chars[i + 1]
B64Index(c) == CHOOSE i \in 0..63 : b64chars[i + 1] = c

RECURSIVE btoa(_)
\* btoa of a string whose code units are all below 256
btoa(str) ==
    IF Len(str) = 0 THEN << >>
    ELSE IF Len(str) = 1
    THEN << B64(str[1] \div 4), B64((str[1] % 4) * 16), "=", "=" >>
    ELSE IF Len(str) = 2
    THEN << B64(str[1] \div 4), B64((str[1] % 4) * 16 + str[2] \div 16),
            B64((str[2] % 16) * 4), "=" >>
    ELSE << B64(str[1] \div 4), B64((str[1] % 4) * 16 + str[2] \div 16),
            B64((str[2] % 16) * 4 + str[3] \div 64), B64(str[3] % 64) >>
         \o btoa(SubSeq(str, 4, Len(str)))

RECURSIVE atob(_)
\* atob of a padded base64 text
atob(b64) ==
    IF Len(b64) = 0 THEN << >>
    ELSE LET i1 == B64Index(b64[1])
             i2 == B64Index(b64[2])
             b1 == i1 * 4 + i2 \div 16
         IN IF b64[3] = "=" THEN << b1 >>
            ELSE LET i3 == B64Index(b64[3])
                     b2 == (i2 % 16) * 16 + i3 \div 4
                 IN IF b64[4] = "=" THEN << b1, b2 >>
                    ELSE << b1, b2, (i3 % 4) * 64 + B64Index(b64[4]) >>
                         \o atob(SubSeq(b64, 5, Len(b64)))

\* String.prototype.replace with a global pattern of one character
replaceAll(str, from, to) == [i \in 1..Len(str) |-> IF str[i] = from THEN to ELSE str[i]]

\* String.prototype.replace(/=/g, '')
RECURSIVE stripPadding(_)
stripPadding(str) ==
    IF Len(str) = 0 THEN << >>
    ELSE IF str[Len(str)] = "=" THEN stripPadding(SubSeq(str, 1, Len(str) - 1))
    ELSE str

\* btoa throws an InvalidCharacterError for a code unit above U+00FF
InvalidCharacter == [kind |-> "throw", error |-> "InvalidCharacterError"]

\* utils.ts:112-117
base64URLEncode(str) ==
    IF \E i \in 1..Len(str) : str[i] > 255 THEN InvalidCharacter
    ELSE [kind |-> "text",
          text |-> stripPadding(replaceAll(replaceAll(btoa(str), "+", "-"), "/", "_"))]

\* utils.ts:122-126
base64URLDecode(str) ==
    LET padded == str \o [i \in 1..((4 - (Len(str) % 4)) % 4) |-> "="]
    IN atob(replaceAll(replaceAll(padded, "-", "+"), "_", "/"))

\* crypto.subtle.sign('HMAC', key, data): the tag is not computed, it is the
\* pair of key and data (distinct pairs have distinct tags)
HMAC(secret, data) == <<secret, data>>

\* the claim sets of the round trip: client identifiers and scopes c1 / mcp
\* (ASCII), U+00E9 (Latin-1) and U+20AC (beyond Latin-1), expiry in the future
ClaimStrings == { Text(<<"c","1">>), Text(<<"m","c","p">>), <<233>>, <<8364>> }
WirePayloads ==
    [sub : ClaimStrings, iss : {Text(<<"h","t","t","p","s",":","/","/","s","r","v">>)},
     aud : {Text(<<"m","c","p","-","s","e","r","v","e","r">>)},
     exp : {3600, 7200}, iat : {0}, scope : ClaimStrings]
Secrets == {"secret", "other-secret"}

\* JSON.parse of a text JSON.stringify produced; a SyntaxError otherwise
JSONparse(text) ==
    IF \E p \in WirePayloads : JSONstringify(p) = text
    THEN [kind |-> "payload", payload |-> CHOOSE p \in WirePayloads : JSONstringify(p) = text]
    ELSE [kind |-> "throw", error |-> "SyntaxError"]

\* utils.ts:23-47 on strings: the three parts of the token, or the exception
\* of btoa
createJWTParts(payload, secret) ==
    LET headerB64 == base64URLEncode(Text(<<"{","\"","a","l","g","\"",":","\"","H","S","2","5","6","\"",",","\"","t","y","p","\"",":","\"","J","W","T","\"","}">>))
        payloadB64 == base64URLEncode(JSONstringify(payload))
    IN IF payloadB64.kind = "throw" THEN payloadB64
       ELSE [kind |-> "token", header |-> headerB64.text, payload |-> payloadB64.text,
             signature |-> HMAC(secret, <<headerB64.text, payloadB64.text>>)]

\* utils.ts:52-87 on the three parts of a token
verifyJWTParts(token, secret, t) ==
    IF HMAC(secret, <<token.header, token.payload>>) # token.signature
    THEN [kind |-> "throw", error |-> "Invalid JWT signature"]
    ELSE LET parsed == JSONparse(base64URLDecode(token.payload))
         IN IF parsed.kind = "throw" THEN parsed
            ELSE IF parsed.payload.exp # 0 /\ t > parsed.payload.exp * 1000
            THEN [kind |-> "throw", error |-> "JWT token expired"]
            ELSE parsed

JWTOut(claims, secret, other, token, same, cross) ==
    [op |-> "jwt", claims |-> claims, secret |-> secret, other |-> other,
     token |-> token, same |-> same, cross |-> cross]

\* createJWT(claims, secret), then verifyJWT of the token with the same
\* secret and with `other`; when createJWT throws there is no token to verify
roundTrip(claims, secret, other) ==
    /\ out = NoOut
    /\ LET token == createJWTParts(claims, secret)
       IN out' = IF token.kind = "throw"
                 THEN JWTOut(claims, secret, other, token, token, token)
                 ELSE JWTOut(claims, secret, other, token,
                             verifyJWTParts(token, secret, now),
                             verifyJWTParts(token, other, now))
    /\ UNCHANGED <<sessions, now, tok, nextGid, issued, redeemed, sse>>

RoundTrip == \E claims \in WirePayloads, secret \in Secrets, other \in Secrets :
                roundTrip(claims, secret, other)

NextJWT == RoundTrip \/ Respond

\* tokens signed and verified over claim sets of every kind of string
SpecJWT == Init /\ [][NextJWT]_vars

----------------------------------------------------------------------------
(* transport.ts: handleSSE.  The stream of line 33 is a TransformStream with *)
(* the default strategies: the high-water mark of its readable side is 0,   *)
(* so the stream starts with backpressure, and backpressure ends when the   *)
(* readable side is pulled, that is when a reader asks for a chunk.  A      *)
(* write to the writable side settles once the transform has taken the      *)
(* chunk, which waits for the end of backpressure.  The reader of the       *)
(* readable side is the runtime, from the moment handleSSE has returned the *)
(* Response that holds it.                                                  *)

\* index.ts:37-39: a GET on either path of the channel
SSERequests ==
    [method : {"GET"}, pathname : {"/sse", "/mcp"}, authorization : AuthorizationHeaders]

\* transport.ts:44-51: the response that holds the readable side, with the
\* chunks written to the stream so far
EventStreamResponse(chunks) ==
    [status |-> 200, kind |-> "text/event-stream", text |-> chunks, message |-> NoMessage]

\* the two chunks of lines 38-39: the connection-established event
ConnectedEvent == << "event: connected\n", "data: {\"status\":\"connected\"}\n\n" >>

\* the response of an event-channel request, with the request and the stage
\* of the handler that produced it: "header" (line 13), "verify" (23-30) or
\* "stream" (44)
SSEOut(req, stage, resp) == [op |-> "sse", req |-> req, stage |-> stage, resp |-> resp]

\* transport.ts:10-38, behind index.ts:37-39: the handler up to its first
\* await on the stream; `written` counts the writes that have settled
handleSSE(req) ==
    /\ out = NoOut
    /\ sse = NoStream
    /\ IF req.authorization.scheme # "Bearer"
       THEN /\ out' = SSEOut(req, "header", TextResponse(401, "Unauthorized"))
            /\ sse' = sse
       ELSE IF verifyJWT(req.authorization, JWT_SECRET, now).kind = "throw"
       THEN /\ out' = SSEOut(req, "verify", TextResponse(401, "Invalid token"))
            /\ sse' = sse
       ELSE /\ sse' = [pc |-> "write", req |-> req, backpressure |-> TRUE,
                       reader |-> FALSE, written |-> 0]
            /\ out' = NoOut
    /\ UNCHANGED <<sessions, now, tok, nextGid, issued, redeemed>>

\* one turn of the event loop on the stream: the reader, if there is one,
\* pulls and ends the backpressure; a pending write settles when there is no
\* backpressure and handleSSE resumes (lines 38-51), returning the Response
\* after the second write; otherwise nothing can run and the write stays
\* pending
eventLoop ==
    /\ out = NoOut
    /\ sse # NoStream
    /\ IF sse.reader /\ sse.backpressure
       THEN /\ sse' = [sse EXCEPT !.backpressure = FALSE]
            /\ out' = out
       ELSE IF sse.pc = "write" /\ ~sse.backpressure
       THEN IF sse.written = 0
            THEN /\ sse' = [sse EXCEPT !.written = 1]
                 /\ out' = out
            ELSE /\ sse' = [sse EXCEPT !.written = 2, !.pc = "open", !.reader = TRUE]
                 /\ out' = SSEOut(sse.req, "stream", EventStreamResponse(ConnectedEvent))
       ELSE UNCHANGED <<sse, out>>
    /\ UNCHANGED <<sessions, now, tok, nextGid, issued, redeemed>>

SSE == \E req \in SSERequests : handleSSE(req)

NextSSE == SSE \/ eventLoop \/ ClockMCP \/ Respond

\* the event channel: every request is eventually taken up, the event loop
\* keeps turning and every response is delivered
SpecSSE ==
    /\ Init /\ [][NextSSE]_vars
    /\ WF_vars(SSE) /\ WF_vars(eventLoop) /\ WF_vars(Respond)

----------------------------------------------------------------------------
(* What the claims speak of *)

\* a token-exchange request: POST, a readable body, grant_type
\* authorization_code and all four other fields present
IsExchange(req) ==
    /\ req.method = "POST"
    /\ req.contentType = "form" \/ req.body = "object"
    /\ req.grant_type = "authorization_code"
    /\ req.code # <<>> /\ req.redirect_uri # ""
    /\ req.client_id # "" /\ req.code_verifier # ""

InvalidGrant == JsonError(400, "invalid_grant")

\* the request presents the grant's redirect_uri and client_id and a verifier
\* whose S256 digest is the grant's code_challenge
Matches(req, session) ==
    /\ session.redirectUri = req.redirect_uri
    /\ session.clientId = req.client_id
    /\ S256Digest(req.code_verifier) = session.codeChallenge

\* C1: at most one access token is ever returned for one grant, however the
\* token requests that present its code interleave.
C1_AtMostOneTokenPerGrant == \A g \in DOMAIN issued : issued[g] <= 1

\* C2: once an exchange has returned 200 for a code, the code is
\* not in the store, and every exchange that starts afterwards with that code
\* returns invalid_grant.
C2_LaterExchangeRejected ==
    /\ [](out.op = "token" /\ out.resp.status = 200
            => out.found.code \notin DOMAIN sessions)
    /\ [][\A p \in Procs, req \in TokenRequests :
            (out = NoOut /\ tok[p].pc = "idle" /\ IsExchange(req)
             /\ req.code \in redeemed /\ StartToken(p, req))
            => out'.op = "token" /\ out'.resp = InvalidGrant]_vars

\* C3: an exchange that found a grant and failed has discarded that grant.
C3_FailedExchangeDiscardsGrant ==
    (out.op = "token" /\ out.found # NoSession /\ out.resp.status # 200)
    => ~(out.found.code \in DOMAIN sessions /\ sessions[out.found.code] = out.found)

\* C4: an exchange that looks its grant up after the grant's expiry instant
\* returns invalid_grant and removes the grant from the store, whatever else
\* it presents.
C4_ExpiredGrantRejectedAndRemoved ==
    [][\A p \in Procs, req \in TokenRequests :
         (out = NoOut /\ tok[p].pc = "idle" /\ IsExchange(req)
          /\ req.code \in DOMAIN sessions /\ now > sessions[req.code].expiresAt
          /\ StartToken(p, req))
         => /\ out'.op = "token"
            /\ out'.resp = InvalidGrant
            /\ req.code \notin DOMAIN sessions']_vars

\* an exchange has just found a grant past its expiry instant, been answered
\* invalid_grant, and the grant is gone
C4_Witness ==
    /\ out.op = "token" /\ out.stage = "idle" /\ out.found # NoSession
    /\ now > out.found.expiresAt
    /\ out.resp = InvalidGrant
    /\ out.found.code \notin DOMAIN sessions

\* C5: a token is returned for a grant only to a request that presents the
\* grant's redirect_uri and client_id and a verifier whose S256 digest is the
\* grant's code_challenge; every other exchange that finds the grant is
\* answered invalid_grant.
C5_TokenOnlyForMatchingRequest ==
    [][/\ \A p \in Procs, req \in TokenRequests :
            (out = NoOut /\ tok[p].pc = "idle" /\ IsExchange(req)
             /\ req.code \in DOMAIN sessions /\ ~Matches(req, sessions[req.code])
             /\ StartToken(p, req))
            => \/ out'.op = "token" /\ out'.resp = InvalidGrant
               \/ out' = NoOut /\ tok'[p].pc = "digest"
       /\ \A p \in Procs :
            (tok[p].pc \in {"digest", "sign"} /\ tok'[p] # tok[p])
            => IF Matches(tok[p].req, tok[p].session)
               THEN out' # NoOut => /\ out'.resp.status = 200
                                    /\ out'.found = tok[p].session
               ELSE out'.op = "token" /\ out'.resp = InvalidGrant
       /\ (out'.op = "token" /\ out'.resp.status = 200 /\ out' # out)
            => \E p \in Procs : /\ tok[p].pc = "sign" /\ tok'[p] = Idle
                                /\ out'.found = tok[p].session
                                /\ Matches(tok[p].req, tok[p].session)
      ]_vars

\* a token has just been returned
C5_Witness ==
    /\ out.op = "token" /\ out.resp.status = 200
    /\ out.resp.token.access_token.payload.sub = out.found.clientId

\* C6: an authorization request with response_type=code that lacks client_id,
\* redirect_uri or code_challenge is answered 302 with error=invalid_request
\* and the echoed state.
C6_MissingFieldRedirects ==
    (/\ out.op = "authorize" /\ out.req.response_type = "code"
     /\ \/ out.req.client_id = "" \/ out.req.redirect_uri = ""
        \/ out.req.code_challenge = "")
    => /\ out.resp.status = 302
       /\ out.resp.error = "invalid_request"
       /\ out.resp.state = out.req.state

\* the request carries response_type=code, client_id, redirect_uri and
\* code_challenge
HasRequiredFields(params) ==
    /\ params.response_type = "code"
    /\ params.client_id # "" /\ params.redirect_uri # ""
    /\ params.code_challenge # ""

\* C7: among the requests with the required fields, a grant is stored if and
\* only if the request carries code_challenge_method = S256, and every other
\* one is answered 302 with error=invalid_request.
C7_GrantIffMethodS256 ==
    [][\A params \in AuthorizeParams, array \in RandomArrays :
         (out = NoOut /\ HasRequiredFields(params) /\ handleAuthorize(params, array))
         => /\ (sessions' # sessions) <=> (params.code_challenge_method = "S256")
            /\ params.code_challenge_method # "S256"
                 => /\ out'.resp.status = 302
                    /\ out'.resp.error = "invalid_request"]_vars

\* C8: a valid authorization request adds exactly one grant to the store, the
\* grant records the request (scope defaulting to mcp) and expires 10 minutes
\* after its creation, and the response is a 302 to redirect_uri carrying the
\* 32-character code and the state.
C8_ValidRequestCreatesOneGrant ==
    [][\A params \in AuthorizeParams, array \in RandomArrays :
         (/\ out = NoOut /\ HasRequiredFields(params)
          /\ params.code_challenge_method = "S256"
          /\ handleAuthorize(params, array))
         => /\ Cardinality(DOMAIN sessions') = Cardinality(DOMAIN sessions) + 1
            /\ out'.resp.status = 302
            /\ out'.resp.location = params.redirect_uri
            /\ Len(out'.resp.code) = 32
            /\ out'.resp.state = params.state
            /\ out'.resp.code \in DOMAIN sessions'
            /\ LET g == sessions'[out'.resp.code]
               IN /\ g.codeChallenge = params.code_challenge
                  /\ g.redirectUri = params.redirect_uri
                  /\ g.clientId = params.client_id
                  /\ g.scope = (IF params.scope = "" THEN "mcp" ELSE params.scope)
                  /\ g.state = params.state
                  /\ g.expiresAt = now + 10 * 60 * 1000]_vars

\* C9: no authorization request overwrites, replaces or alters a grant that
\* is in the store and has not expired.
C9_LiveGrantsNeverOverwritten ==
    [][\A params \in AuthorizeParams, array \in RandomArrays :
         (out = NoOut /\ handleAuthorize(params, array))
         => \A c \in DOMAIN sessions :
               now <= sessions[c].expiresAt
               => c \in DOMAIN sessions' /\ sessions'[c] = sessions[c]]_vars

\* C10: every token response other than the 200 is a JSON body {error: code}
\* with code among invalid_request, invalid_grant, unsupported_grant_type and
\* status 400 or 405.
C10_TokenFailuresAreOAuthErrors ==
    (out.op = "token" /\ out.resp.status # 200)
    => /\ out.resp.kind = "json"
       /\ out.resp.error \in {"invalid_request", "invalid_grant",
                              "unsupported_grant_type"}
       /\ out.resp.status \in {400, 405}

\* C11: every 200 of the token endpoint carries token_type Bearer,
\* expires_in 3600 and the grant's scope, and the claims of its token are
\* sub = the grant's client_id, aud = mcp-server, scope = the grant's scope
\* and exp = iat + 3600.
C11_TokenResponseAndClaims ==
    (out.op = "token" /\ out.resp.status = 200)
    => LET body == out.resp.token
           claims == body.access_token.payload
       IN /\ out.resp.kind = "json"
          /\ body.token_type = "Bearer"
          /\ body.expires_in = 3600
          /\ body.scope = out.found.scope
          /\ claims.sub = out.found.clientId
          /\ claims.aud = "mcp-server"
          /\ claims.scope = out.found.scope
          /\ claims.exp = claims.iat + 3600

\* a token has just been returned for a grant of scope read to client c2,
\* minted after the clock has advanced
C11_Witness ==
    /\ out.op = "token" /\ out.resp.status = 200
    /\ out.found.scope = "read" /\ out.found.clientId = "c2"
    /\ out.resp.token.access_token.payload.iat > 0

\* C12: an exchange whose code is not in the store (never issued, or already
\* consumed) and an exchange whose code names an expired grant receive the
\* same response, 400 invalid_grant.
C12_AbsentConsumedExpiredAlike ==
    [][\A p \in Procs, req \in TokenRequests :
         (/\ out = NoOut /\ tok[p].pc = "idle" /\ IsExchange(req)
          /\ \/ req.code \notin DOMAIN sessions
             \/ now > sessions[req.code].expiresAt
          /\ StartToken(p, req))
         => out'.op = "token" /\ out'.resp = InvalidGrant]_vars

\* every code of the model has been consumed, and an exchange has just been
\* answered invalid_grant for a code it did not find
C12_Witness ==
    /\ out.op = "token" /\ out.stage = "idle" /\ out.found = NoSession
    /\ out.resp = InvalidGrant
    /\ redeemed = TokenCodes
    /\ sessions = << >>

\* the header carries a three-part bearer token
HasJWT(h) == h.scheme = "Bearer" /\ h.parts = 3

\* the token's signature is the HMAC of its header and claims under the
\* server's secret
CorrectlySigned(jwt) == jwt.signature = <<JWT_SECRET, jwt.payload>>

C14_IssuerAndAudienceChecked ==
    (/\ out.op = "mcp" /\ HasJWT(out.req.authorization)
     /\ CorrectlySigned(out.req.authorization.jwt)
     /\ \/ out.req.authorization.jwt.payload.aud # "mcp-server"
        \/ out.req.authorization.jwt.payload.iss # Origin)
    => out.resp.status = 401

\* C15: a correctly signed token with exp <= now (now in seconds, Date.now()
\* / 1000) is answered 401.
C15_ExpiredAtExpInstant ==
    (/\ out.op = "mcp" /\ HasJWT(out.req.authorization)
     /\ CorrectlySigned(out.req.authorization.jwt)
     /\ out.req.authorization.jwt.payload.exp * 1000 <= now)
    => out.resp.status = 401

\* the body is a JSON object with the protocol tag 2.0 and a method, a
\* result or an error
StructurallyValid(body) ==
    /\ body.json = "object"
    /\ body.message.jsonrpc = "2.0"
    /\ \/ body.message.method \notin {"undefined", ""}
       \/ body.message.hasResult \/ body.message.hasError

\* the response is a JSON-RPC error of this code
IsRpcError(resp, code) ==
    /\ resp.kind = "json" /\ resp.message.jsonrpc = "2.0"
    /\ ~resp.message.result.present
    /\ resp.message.error.present /\ resp.message.error.value.code = code

C17_ResponseEchoesId ==
    (/\ out.op = "mcp" /\ out.resp.kind = "json"
     /\ out.req.body.json = "object" /\ out.req.body.message.id # "undefined")
    => out.resp.message.id = out.req.body.message.id

SupportedMethods == {"initialize", "tools/list", "tools/call", "ping"}

\* C18: a dispatched message is answered with error -32601 if and only if
\* its method is not one of the four supported ones, and the error message
\* then names the method.
C18_MethodNotFound ==
    (out.op = "mcp" /\ out.stage = "dispatch")
    => LET method == out.req.body.message.method
       IN /\ method \notin SupportedMethods <=> IsRpcError(out.resp, -32601)
          /\ method \notin SupportedMethods
               => out.resp.message.error.value.message = <<"Method not found: ", method>>

\* C19: a tools/call message with no params, no name or a name that is not
\* in the registry is answered with error -32602.
C19_MissingOrUnknownTool ==
    (/\ out.op = "mcp" /\ out.stage = "dispatch"
     /\ out.req.body.message.method = "tools/call"
     /\ \/ ~out.req.body.message.params.present
        \/ out.req.body.message.params.value.name
             \notin {AVAILABLE_TOOLS[i].name : i \in 1..Len(AVAILABLE_TOOLS)})
    => IsRpcError(out.resp, -32602)

\* C20: an initialize message is answered with the result (the requested
\* version, tool support and no resource support, the server identity) if its
\* protocolVersion is a string that begins with 2024-, and with error -32602
\* otherwise.
C20_InitializeVersionRule ==
    (/\ out.op = "mcp" /\ out.stage = "dispatch"
     /\ out.req.body.message.method = "initialize")
    => LET params == out.req.body.message.params
       IN IF /\ params.present
             /\ params.value.protocolVersion.type = "string"
             /\ startsWith(params.value.protocolVersion.chars, SupportedPrefix)
          THEN /\ out.resp.message.result.present
               /\ ~out.resp.message.error.present
               /\ out.resp.message.result.value.protocolVersion
                    = params.value.protocolVersion.chars
               /\ "tools" \in DOMAIN out.resp.message.result.value.capabilities
               /\ "resources" \notin DOMAIN out.resp.message.result.value.capabilities
               /\ out.resp.message.result.value.serverInfo = SERVER_INFO
          ELSE IsRpcError(out.resp, -32602)

\* C21: every dispatched message is answered with one JSON-RPC response; a
\* fault in the execution of a registered tool is answered -32603 with a
\* description of the fault, and every other exception -32603 with the
\* message Internal error.
C21_DispatcherTotal ==
    (out.op = "mcp" /\ out.stage = "dispatch")
    => LET message == out.req.body.message
           params == message.params
           toolFault == /\ message.method = "tools/call" /\ params.present
                        /\ params.value.name = "echo"
                        /\ params.value.arguments.text = Unprintable
           otherFault == \/ message.method = Unprintable
                         \/ /\ message.method \in {"initialize", "tools/call"}
                            /\ ~params.present
                         \/ /\ message.method = "initialize" /\ params.present
                            /\ params.value.protocolVersion.type = "number"
       IN /\ out.resp.message # ThrownMessage
          /\ out.resp.kind = "json" /\ out.resp.message.jsonrpc = "2.0"
          /\ toolFault => /\ IsRpcError(out.resp, -32603)
                          /\ out.resp.message.error.value.message[1]
                               = "Tool execution failed: "
          /\ otherFault => /\ IsRpcError(out.resp, -32603)
                           /\ out.resp.message.error.value.message
                                = <<"Internal error">>

\* the echo tool has just failed on a text it cannot print, and the call
\* has been answered -32603
C21_Witness ==
    /\ out.op = "mcp" /\ out.stage = "dispatch"
    /\ out.req.body.message.method = "tools/call"
    /\ out.req.body.message.params.present
    /\ out.req.body.message.params.value.name = "echo"
    /\ out.req.body.message.params.value.arguments.text = Unprintable
    /\ IsRpcError(out.resp, -32603)

\* the response carries a result whose content is a list of text blocks
IsTextResult(resp) ==
    /\ resp.kind = "json" /\ resp.message.result.present
    /\ ~resp.message.error.present
    /\ LET content == resp.message.result.value.content
       IN Len(content) >= 1 /\ \A i \in 1..Len(content) : content[i].type = "text"

\* C22: tools/list returns the registry whatever its params, and tools/call
\* with a name that tools/list returns (and arguments that can be printed)
\* returns a result whose content is a list of text blocks.
C22_ListedToolsCallable ==
    (out.op = "mcp" /\ out.stage = "dispatch")
    => LET message == out.req.body.message
           listed == handleToolsList(message).result.value.tools
       IN /\ message.method = "tools/list"
               => /\ out.resp.message.result.present
                  /\ ~out.resp.message.error.present
                  /\ out.resp.message.result.value.tools = AVAILABLE_TOOLS
          /\ (/\ message.method = "tools/call" /\ message.params.present
              /\ \E i \in 1..Len(listed) : listed[i].name = message.params.value.name
              /\ message.params.value.arguments.text # Unprintable)
               => IsTextResult(out.resp)

\* the timestamp tool has just been called and has returned a text block
C22_Witness ==
    /\ out.op = "mcp" /\ out.stage = "dispatch"
    /\ out.req.body.message.method = "tools/call"
    /\ out.req.body.message.params.present
    /\ out.req.body.message.params.value.name = "timestamp"
    /\ IsTextResult(out.resp)

\* the tools the documentation says the server offers
DocumentedTools == {"echo", "ping", "timestamp", "status"}

\* C23: each of echo, ping, timestamp and status is in the tools/list result
\* and can be called with a successful result.
C23_FourToolsOffered ==
    (out.op = "mcp" /\ out.stage = "dispatch")
    => LET message == out.req.body.message
       IN /\ message.method = "tools/list"
               => /\ out.resp.message.result.present
                  /\ \A n \in DocumentedTools :
                        \E i \in 1..Len(out.resp.message.result.value.tools) :
                           out.resp.message.result.value.tools[i].name = n
          /\ (/\ message.method = "tools/call" /\ message.params.present
              /\ message.params.value.name \in DocumentedTools
              /\ message.params.value.arguments.text # Unprintable)
               => IsTextResult(out.resp)

\* C26: every response of the dispatcher carries a result or an error, never
\* both and never neither, and no method.
C26_ResultXorError ==
    (out.op = "mcp" /\ out.stage = "dispatch")
    => /\ out.resp.message.result.present # out.resp.message.error.present
       /\ "method" \notin DOMAIN out.resp.message

\* an error response and a result response: a call of an unknown tool has
\* just been answered with an error and no result
C26_Witness ==
    /\ out.op = "mcp" /\ out.stage = "dispatch"
    /\ out.req.body.message.method = "tools/call"
    /\ out.req.body.message.params.present
    /\ out.req.body.message.params.value.name = "status"
    /\ out.resp.message.error.present /\ ~out.resp.message.result.present

\* C27: a token request whose body was read and whose grant_type is not
\* authorization_code is answered unsupported_grant_type whatever its other
\* fields, one with that grant_type and a missing field is answered
\* invalid_request, and in both cases the store is unchanged and no token is
\* minted.
C27_ValidationBeforeLookup ==
    [][\A p \in Procs, req \in TokenRequests :
         LET parsed == parseTokenRequest(req)
             error == tokenRequestError(parsed.fields)
         IN (/\ out = NoOut /\ tok[p].pc = "idle"
             /\ req.method = "POST" /\ parsed.kind # "throw"
             /\ error # ""
             /\ StartToken(p, req))
            => /\ out'.op = "token"
               /\ out'.resp = JsonError(400, error)
               /\ sessions' = sessions
               /\ issued' = issued /\ tok'[p] = Idle]_vars

\* the grants stored under codes other than `code` are as they were, and no
\* code has been added
OtherGrantsUntouched(code) ==
    /\ DOMAIN sessions' \subseteq DOMAIN sessions
    /\ \A c \in DOMAIN sessions :
          c # code => c \in DOMAIN sessions' /\ sessions'[c] = sessions[c]

\* C30: every step of a token exchange leaves the grants stored under codes
\* other than its own as they were, and adds no grant (a step that leaves the
\* store as it was does so trivially).
C30_OnlyOwnGrantTouched ==
    [][sessions' # sessions
       => /\ \A p \in Procs, req \in TokenRequests :
               (out = NoOut /\ tok[p].pc = "idle" /\ StartToken(p, req))
               => OtherGrantsUntouched(req.code)
          /\ \A p \in Procs :
               (tok[p].pc \in {"digest", "sign"} /\ tok'[p] # tok[p])
               => OtherGrantsUntouched(tok[p].req.code)]_vars

\* an exchange has just returned 200 and consumed its grant while the grant
\* of another code is still stored
C30_Witness ==
    /\ out.op = "token" /\ out.resp.status = 200
    /\ out.found.code \notin DOMAIN sessions
    /\ \E c \in DOMAIN sessions : c # out.found.code

\* C28: an authorization request that supplies a redirect_uri and whose
\* response_type is not code is redirected to that redirect_uri with
\* error=unsupported_response_type and the state it sent, whatever its other
\* fields, and stores no grant.
C28_UnsupportedResponseType ==
    [][(/\ out = NoOut /\ out'.op = "authorize"
        /\ out'.req.response_type # "code"
        /\ out'.req.redirect_uri # "")
       => /\ out'.resp = Redirect(out'.req.redirect_uri, "unsupported_response_type",
                                  <<>>, out'.req.state)
          /\ sessions' = sessions]_vars

\* the byte values for which generateRandomString selects the character c
BytesSelecting(c) == { b \in Bytes : generateRandomString(1, <<b>>) = <<c>> }

\* C29: every character of the alphabet is selected by the same number of
\* byte values.
C29_UniformCharacters ==
    (out.op = "random")
    => Cardinality(BytesSelecting(out.result[1]))
         = Cardinality(BytesSelecting(chars[1]))

\* C25: a token created from a claim set with a future expiry verifies, with
\* the secret it was signed with, to the same claim set, whatever the
\* characters of its client identifier and scope; verified with another
\* secret it fails with Invalid JWT signature.
C25_TokenRoundTrip ==
    (out.op = "jwt")
    => /\ out.same = [kind |-> "payload", payload |-> out.claims]
       /\ out.other # out.secret
            => out.cross = [kind |-> "throw", error |-> "Invalid JWT signature"]

\* C24: a GET on the event channel with a valid bearer token is eventually
\* answered with a text/event-stream response whose first event is the
\* connection-established event.
C24_EventStreamOpens ==
    (sse # NoStream /\ sse.pc = "write")
    ~> (/\ out.op = "sse" /\ out.stage = "stream"
        /\ out.resp.status = 200 /\ out.resp.kind = "text/event-stream"
        /\ out.resp.text = ConnectedEvent)

\* C31: the expiry of a grant is evaluated once, when the exchange looks the
\* grant up.  An exchange is suspended only after it found its grant live;
\* once suspended it goes on to its token when its verifier matches, also
\* when the grant's expiry instant has passed or the grant has left the store
\* in the meantime; and every token comes from such an exchange.
C31_ExpiryCheckedOnce ==
    [][/\ \A p \in Procs :
            (tok[p].pc = "idle" /\ tok'[p].pc = "digest")
            => /\ tok'[p].req.code \in DOMAIN sessions
               /\ tok'[p].session = sessions[tok'[p].req.code]
               /\ now <= tok'[p].session.expiresAt
       /\ \A p \in Procs :
            (/\ tok[p].pc \in {"digest", "sign"} /\ tok'[p] # tok[p]
             /\ S256Digest(tok[p].req.code_verifier) = tok[p].session.codeChallenge
             /\ \/ now > tok[p].session.expiresAt
                \/ tok[p].req.code \notin DOMAIN sessions)
            => \/ tok[p].pc = "digest" /\ tok'[p].pc = "sign" /\ out' = NoOut
               \/ /\ tok[p].pc = "sign" /\ out'.op = "token"
                  /\ out'.resp.status = 200 /\ out'.found = tok[p].session
       /\ (out = NoOut /\ out'.op = "token" /\ out'.resp.status = 200)
            => \E p \in Procs : tok[p].pc = "sign" /\ tok'[p] = Idle]_vars

\* a token has just been returned for a grant whose expiry instant passed
\* while the exchange was suspended
C31_Witness ==
    /\ out.op = "token" /\ out.stage = "sign" /\ out.resp.status = 200
    /\ now > out.found.expiresAt

====
